---------------------------- MODULE Spec2Model ----------------------------
(***************************************************************************)
(* The G-code motion interpreter of docs/js/main.js: evaluateCode, the     *)
(* line cleanup, parseTokensFromLine, the modal scan, recordLinearMove,    *)
(* handleArc and interpolateArcXYPoints.                                   *)
(*                                                                         *)
(* Numbers.  A JavaScript double is modelled as a decimal fixed-point      *)
(* number: the integer n stands for n / Scale (hundredths), so 25.4 is     *)
(* 2540 and 1.0 is 100.  Angles are kept in radians / AngScale.  NaN is a  *)
(* value of its own that every arithmetic operator propagates and every    *)
(* comparison answers FALSE on, as IEEE-754 does.                          *)
(***************************************************************************)
EXTENDS Integers, Sequences, FiniteSets, TLC

\* ------------------------------------------------------------ numbers

\* resolution of a modelled double: n stands for n / Scale
Scale == 100
\* resolution of a modelled angle: a stands for a / AngScale radians
AngScale == 10000
\* JavaScript's NaN (parseFloat of "-", ".", "+"); no number of the model
NaN == -2000000000

IsNaN(a) == a = NaN

Abs(a) == IF a < 0 THEN -a ELSE a
Sgn(a) == IF a < 0 THEN -1 ELSE 1
\* integer division rounding toward zero
Quot(a, b) == Sgn(a) * Sgn(b) * (Abs(a) \div Abs(b))

\* a + b, a - b
Add(a, b) == IF IsNaN(a) \/ IsNaN(b) THEN NaN ELSE a + b
Sub(a, b) == IF IsNaN(a) \/ IsNaN(b) THEN NaN ELSE a - b
\* a * b of two doubles
Mul(a, b) == IF IsNaN(a) \/ IsNaN(b) THEN NaN ELSE Quot(a * b, Scale)
\* a / b of two doubles, b # 0
Div(a, b) == IF IsNaN(a) \/ IsNaN(b) THEN NaN ELSE Quot(a * Scale, b)
\* a > b, a >= b, a < b, a <= b: FALSE when either side is NaN
Gt(a, b) == ~IsNaN(a) /\ ~IsNaN(b) /\ a > b
Ge(a, b) == ~IsNaN(a) /\ ~IsNaN(b) /\ a >= b
Lt(a, b) == ~IsNaN(a) /\ ~IsNaN(b) /\ a < b
Le(a, b) == ~IsNaN(a) /\ ~IsNaN(b) /\ a <= b
\* a || b: b when a is falsy (0 or NaN)
JsOr(a, b) == IF IsNaN(a) \/ a = 0 THEN b ELSE a

RECURSIVE SqrtSearch(_, _, _)
SqrtSearch(n, lo, hi) ==
    IF lo >= hi THEN lo
    ELSE LET mid == (lo + hi + 1) \div 2
         IN  IF mid * mid <= n THEN SqrtSearch(n, mid, hi)
             ELSE SqrtSearch(n, lo, mid - 1)
\* the integer square root of n >= 0
ISqrt(n) == SqrtSearch(n, 0, IF n < 46340 THEN n ELSE 46340)

\* Math.sqrt of a double
Sqrt(a) == IF IsNaN(a) \/ a < 0 THEN NaN ELSE ISqrt(a * Scale)
\* Math.hypot(dx, dy, dz)
Hypot3(dx, dy, dz) ==
    IF IsNaN(dx) \/ IsNaN(dy) \/ IsNaN(dz) THEN NaN
    ELSE ISqrt(dx * dx + dy * dy + dz * dz)
\* Math.hypot(dx, dy)
Hypot(dx, dy) == Hypot3(dx, dy, 0)

\* Math.PI and 2*Math.PI, in radians / AngScale
PI == 31416
TwoPI == 2 * PI


\* the polynomial for atan(z), z = zz / AngScale in [0, 1]
AtanPoly(zz) ==
    ((PI \div 4) * zz) \div AngScale
      + (((zz * (AngScale - zz)) \div AngScale)
           * (2447 + (663 * zz) \div AngScale)) \div AngScale

\* atan(n / d) for 0 <= n <= d, d > 0, in radians / AngScale
AtanUnit(n, d) == AtanPoly((n * AngScale) \div d)

\* the angle of (ax, ay) for ax, ay >= 0, in [0, PI/2]
FirstQuadrantAngle(ax, ay) ==
    IF ax = 0 /\ ay = 0 THEN 0
    ELSE IF ay <= ax THEN AtanUnit(ay, ax)
    ELSE (PI \div 2) - AtanUnit(ax, ay)

\* the angle of (x, y) from the angle base of (|x|, |y|)
QuadrantAngle(y, x, base) ==
    IF x >= 0 /\ y >= 0 THEN base
    ELSE IF x < 0 /\ y >= 0 THEN PI - base
    ELSE IF x < 0 THEN base - PI
    ELSE -base

\* Math.atan2(y, x): the angle of the vector (x, y), in (-PI, PI];
\* atan2(0, 0) = 0 and atan2(0, x) = PI for x < 0
Atan2(y, x) ==
    IF IsNaN(y) \/ IsNaN(x) THEN NaN
    ELSE QuadrantAngle(y, x, FirstQuadrantAngle(Abs(x), Abs(y)))

\* sin(r) * AngScale for 0 <= r <= PI, from p = r * (PI - r) / 100
SinRatio(p) ==
    (16 * p * 50) \div ((5 * ((PI * PI) \div 100) - 4 * p) \div 200)
SinHalfTurn(r) == SinRatio((r * (PI - r)) \div 100)

\* Math.sin(a) and Math.cos(a), times AngScale
SinReduced(r) == IF r <= PI THEN SinHalfTurn(r) ELSE -SinHalfTurn(r - PI)
Sin(a) == SinReduced(a % TwoPI)
Cos(a) == Sin(a + PI \div 2)

\* normalize angle to (-PI, PI]: the two while loops of normalizeAngle
RECURSIVE normalizeAngle(_)
normalizeAngle(a) ==
    IF Le(a, -PI) THEN normalizeAngle(a + TwoPI)
    ELSE IF Gt(a, PI) THEN normalizeAngle(a - TwoPI)
    ELSE a

\* ------------------------------------------------------------ text

Digits == {"0", "1", "2", "3", "4", "5", "6", "7", "8", "9"}
UpperLetters ==
    <<"A", "B", "C", "D", "E", "F", "G", "H", "I", "J", "K", "L", "M",
      "N", "O", "P", "Q", "R", "S", "T", "U", "V", "W", "X", "Y", "Z">>
LowerLetters ==
    <<"a", "b", "c", "d", "e", "f", "g", "h", "i", "j", "k", "l", "m",
      "n", "o", "p", "q", "r", "s", "t", "u", "v", "w", "x", "y", "z">>
Letters == {UpperLetters[i] : i \in 1..26}
DigitValue(c) ==
    CASE c = "0" -> 0 [] c = "1" -> 1 [] c = "2" -> 2 [] c = "3" -> 3
      [] c = "4" -> 4 [] c = "5" -> 5 [] c = "6" -> 6 [] c = "7" -> 7
      [] c = "8" -> 8 [] c = "9" -> 9

\* one character of String.prototype.toUpperCase
UpperChar(c) ==
    IF \E i \in 1..26 : LowerLetters[i] = c
    THEN UpperLetters[CHOOSE i \in 1..26 : LowerLetters[i] = c]
    ELSE c

\* s.slice(from) of a character sequence, from counted from 1
Drop(s, from) == SubSeq(s, from, Len(s))

\* the end (exclusive) of the run of digits of s that starts at i
RECURSIVE DigitsEnd(_, _)
DigitsEnd(s, i) ==
    IF i <= Len(s) /\ s[i] \in Digits THEN DigitsEnd(s, i + 1) ELSE i

\* line.replace(/[\t ]+/g,'')
StripBlanks(raw) == SelectSeq(raw, LAMBDA c : c # " " /\ c # "\t")
\* line.toUpperCase()
ToUpperCase(s) == [i \in 1..Len(s) |-> UpperChar(s[i])]

\* line.replace(/^N[0-9]+/,'')
StripLineNumber(s) ==
    IF Len(s) >= 2 /\ s[1] = "N" /\ s[2] \in Digits
    THEN Drop(s, DigitsEnd(s, 2))
    ELSE s

\* the index of the first c in s at or after i, 0 when there is none
RECURSIVE IndexFrom(_, _, _)
IndexFrom(s, c, i) ==
    IF i > Len(s) THEN 0
    ELSE IF s[i] = c THEN i
    ELSE IndexFrom(s, c, i + 1)

\* line.replace(/\(.*?\)/g,''): every "(" up to the nearest ")" after it
RECURSIVE StripParens(_)
StripParensBetween(s, open, close) ==
    IF close = 0 THEN s
    ELSE SubSeq(s, 1, open - 1) \o StripParens(Drop(s, close + 1))
StripParensAt(s, open) ==
    IF open = 0 THEN s
    ELSE StripParensBetween(s, open, IndexFrom(s, ")", open + 1))
StripParens(s) == StripParensAt(s, IndexFrom(s, "(", 1))

\* sc = line.indexOf(';'); if (sc >= 0) line = line.slice(0, sc)
CutAt(s, sc) == IF sc = 0 THEN s ELSE SubSeq(s, 1, sc - 1)
StripSemicolon(s) == CutAt(s, IndexFrom(s, ";", 1))

\* the cleanup of one raw line, in the order of the code (lines 210-215)
CleanLine(raw) ==
    StripSemicolon(StripParens(StripLineNumber(ToUpperCase(StripBlanks(raw)))))

\* [A-Z][+-]?[0-9]*\.?[0-9]* matched at the letter s[i]: the position after
\* the optional sign, after the optional dot that follows the digits at b,
\* and the end (exclusive) of the match
AfterSign(s, i) ==
    IF i + 1 <= Len(s) /\ s[i + 1] \in {"+", "-"} THEN i + 2 ELSE i + 1
AfterDot(s, b) == IF b <= Len(s) /\ s[b] = "." THEN b + 1 ELSE b
WordEnd(s, i) == DigitsEnd(s, AfterDot(s, DigitsEnd(s, AfterSign(s, i))))

RECURSIVE TokensFrom(_, _)
TokenAt(s, i, e) ==
    <<[letter |-> s[i], value |-> SubSeq(s, i + 1, e - 1)]>>
      \o TokensFrom(s, e)
TokensFrom(s, i) ==
    IF i > Len(s) THEN <<>>
    ELSE IF s[i] \in Letters THEN TokenAt(s, i, WordEnd(s, i))
    ELSE TokensFrom(s, i + 1)

\* parseTokensFromLine: the tokens {letter, value} of a cleaned line
parseTokensFromLine(line) == TokensFrom(line, 1)

\* the value of a run of digits
RECURSIVE DigitsValue(_)
DigitsValue(ds) ==
    IF ds = <<>> THEN 0
    ELSE 10 * DigitsValue(SubSeq(ds, 1, Len(ds) - 1)) + DigitValue(ds[Len(ds)])

\* the first two fraction digits, in units of 1 / Scale
FractionValue(frac) ==
    10 * (IF Len(frac) >= 1 THEN DigitValue(frac[1]) ELSE 0)
      + (IF Len(frac) >= 2 THEN DigitValue(frac[2]) ELSE 0)

\* parseFloat of a token value ([+-]?[0-9]*\.?[0-9]*): NaN when it has no
\* digit at all; fraction digits past the model's resolution are dropped
ParseDigits(neg, whole, frac) ==
    IF whole = <<>> /\ frac = <<>> THEN NaN
    ELSE (IF neg THEN -1 ELSE 1)
           * (DigitsValue(whole) * Scale + FractionValue(frac))
ParseFraction(V, neg, whole, c) ==
    ParseDigits(neg, whole, SubSeq(V, c, DigitsEnd(V, c) - 1))
ParseWhole(V, neg, a, b) ==
    ParseFraction(V, neg, SubSeq(V, a, b - 1), AfterDot(V, b))
ParseUnsigned(V, neg, a) == ParseWhole(V, neg, a, DigitsEnd(V, a))
parseFloat(V) ==
    ParseUnsigned(V, V # <<>> /\ V[1] = "-",
                  IF V # <<>> /\ V[1] \in {"+", "-"} THEN 2 ELSE 1)

\* Math.floor of a double, as an integer (NaN stays NaN)
Floor(a) == IF IsNaN(a) THEN NaN ELSE a \div Scale

\* ------------------------------------------------------------ state

VARIABLES
    machinePos,   \* {x, y, z}, millimetres
    path,         \* the points pushed for the viewer
    movesLog,     \* {type, distance_mm, time_sec, feed_mm_per_min}
    modal,        \* the modal state
    lines,        \* the lines of the codebox text this pass has read so far
    tokens,       \* the tokens of the current line still to scan
    motionG,      \* the line's motion code: 0, 1, 2, 3 or -1 for null
    params,       \* the line's numeric words, letter -> raw value
    pc,           \* "load", "line", "scan" or "idle"
    leftover      \* history: the pass began over a modal state that the
                  \* pass before it had moved away from the defaults

vars == <<machinePos, path, movesLog, modal, lines, tokens, motionG, params,
          pc, leftover>>

\* the longest program text a pass reads, in lines
MaxLines == 2

\* motionG = null
NoMotion == -1
NoParams == [l \in {} |-> 0]
ParamLetters == {"X", "Y", "Z", "I", "J", "K", "R", "F"}
AxisLetters == <<"X", "Y", "Z">>

\* modal.unitsFactor after G21 and after G20: 1.0 and 25.4 mm per unit
Millimetre == 100
Inch == 2540

\* the modal object as the script creates it (lines 12-21)
InitialModal ==
    [ absolute |-> TRUE,
      unitsFactor |-> Millimetre,
      plane |-> "XY",
      currentFeed_mm_per_min |-> 1000 * Scale,
      rapidFeed_in_in_per_min |-> 24 * Scale,
      rapidFeed_mm_per_min |-> Mul(24 * Scale, Inch) ]

\* (distance / feed) * 60.0 for feed > 0; the product is taken first, so
\* that the fixed-point quotient keeps its digits
MoveTime(distance, feed) ==
    IF IsNaN(distance) THEN NaN ELSE Quot(distance * 60 * Scale, feed)

\* --------------------------------------------------- recordLinearMove

\* lines 60-71: the new [machinePos, path, movesLog] of a move of the given
\* distance to newPos
RecordMove(pth, log, newPos, distance, feed, motionType) ==
    [ machinePos |-> newPos,
      path |-> Append(pth, newPos),
      movesLog |-> Append(log,
          [ type |-> motionType,
            distance_mm |-> distance,
            time_sec |-> IF Gt(feed, 0) THEN MoveTime(distance, feed) ELSE 0,
            feed_mm_per_min |-> feed ]) ]

\* recordLinearMove(targetPos, feed_mm_per_min, motionType); targetPos has
\* its three axes, so ex, ey, ez are those of targetPos
recordLinearMove(pos, pth, log, targetPos, feed, motionType) ==
    RecordMove(pth, log,
               [x |-> targetPos.x, y |-> targetPos.y, z |-> targetPos.z],
               Hypot3(Sub(targetPos.x, JsOr(pos.x, 0)),
                      Sub(targetPos.y, JsOr(pos.y, 0)),
                      Sub(targetPos.z, JsOr(pos.z, 0))),
               feed, motionType)

\* an axis target that reads every word as absolute
AxisTargetAbsolute(axis, cur, prm, mdl) ==
    IF axis \in DOMAIN prm THEN Mul(prm[axis], mdl.unitsFactor) ELSE cur

\* the value of one axis of the target of a G0/G1/implicit move
\* (lines 270-276, 281-287, 297-303)
AxisTarget(axis, cur, prm, mdl) ==
    IF axis \in DOMAIN prm
    THEN (IF mdl.absolute THEN Mul(prm[axis], mdl.unitsFactor)
          ELSE Add(cur, Mul(prm[axis], mdl.unitsFactor)))
    ELSE cur

\* a target whose X word is read as millimetres whatever the units
LinearTargetMetricX(pos, prm, mdl) ==
    [ x |-> AxisTarget("X", pos.x, prm, [mdl EXCEPT !.unitsFactor = Millimetre]),
      y |-> AxisTarget("Y", pos.y, prm, mdl),
      z |-> AxisTarget("Z", pos.z, prm, mdl) ]

\* the target of a G0/G1/implicit move
LinearTarget(pos, prm, mdl) ==
    [ x |-> AxisTarget("X", pos.x, prm, mdl),
      y |-> AxisTarget("Y", pos.y, prm, mdl),
      z |-> AxisTarget("Z", pos.z, prm, mdl) ]

\* ----------------------------------------- interpolateArcXYPoints

\* lines 84-88: the sweep forced to the direction
ForceDirection(delta, cw) ==
    IF cw THEN (IF Ge(delta, 0) THEN delta - TwoPI ELSE delta)
    ELSE (IF Le(delta, 0) THEN delta + TwoPI ELSE delta)

\* lines 83-88: the signed sweep from startAng to endAng
ForcedDelta(startAng, endAng, cw) ==
    ForceDirection(Sub(endAng, startAng), cw)

\* Math.abs
AbsN(a) == IF IsNaN(a) THEN NaN ELSE Abs(a)

\* Math.max(6, n)
AtLeast6(n) == IF n > 6 THEN n ELSE 6
\* Math.max(6, Math.ceil((absDelta * 180/Math.PI) / 10)); NaN for NaN
Segments(absDelta) ==
    IF IsNaN(absDelta) THEN NaN
    ELSE AtLeast6((absDelta * 18 + PI - 1) \div PI)

\* the point at distance radius from the center in the direction (vx, vy)
\* of length re; the direction of angle 0 when the vector is null
PointToward(center, radius, vx, vy, re, z) ==
    [ x |-> center.x + (IF re = 0 THEN radius ELSE Quot(radius * vx, re)),
      y |-> center.y + (IF re = 0 THEN 0 ELSE Quot(radius * vy, re)),
      z |-> z ]

\* the point at distance radius from the center at the angle ang
PointAt(center, radius, ang, z) ==
    [ x |-> center.x + Quot(radius * Cos(ang), AngScale),
      y |-> center.y + Quot(radius * Sin(ang), AngScale),
      z |-> z ]

\* the i-th display sample (lines 97-101).  For i = segments the angle is
\* startAng + delta, which is endAng up to a full turn, so its cosine and
\* sine are those of the vector from the center to the end point
ArcPoint(start, end, center, radius, startAng, delta, segments, i) ==
    IF i = segments
    THEN PointToward(center, radius, end.x - center.x, end.y - center.y,
                     Hypot(end.x - center.x, end.y - center.y), start.z)
    ELSE PointAt(center, radius, startAng + (i * delta) \div segments,
                 start.z)

\* lines 94-103: the samples of a sweep in so many segments
ArcSamples(start, end, center, radius, startAng, delta, segments) ==
    [ points |-> IF IsNaN(segments) THEN <<>>
                 ELSE [i \in 1..segments |->
                         ArcPoint(start, end, center, radius, startAng,
                                  delta, segments, i)],
      radius |-> radius,
      absDelta |-> AbsN(delta) ]

\* lines 83-103, from the two angles
ArcSweep(start, end, center, startAng, delta) ==
    ArcSamples(start, end, center,
               Hypot(Sub(start.x, center.x), Sub(start.y, center.y)),
               startAng, delta, Segments(AbsN(delta)))

\* interpolateArcXYPoints(start, end, center, cw): {points, radius, absDelta}
interpolateArcXYPoints(start, end, center, cw) ==
    ArcSweep(start, end, center,
             Atan2(Sub(start.y, center.y), Sub(start.x, center.x)),
             ForcedDelta(Atan2(Sub(start.y, center.y), Sub(start.x, center.x)),
                         Atan2(Sub(end.y, center.y), Sub(end.x, center.x)),
                         cw))

\* ---------------------------------------------------------- handleArc

\* conv[k] = params[k] * modal.unitsFactor for every word of the line
ConvertParams(prm, mdl) ==
    [k \in DOMAIN prm |-> Mul(prm[k], mdl.unitsFactor)]

\* the target of an arc (lines 118-125)
ArcAxis(axis, cur, conv, mdl) ==
    IF axis \in DOMAIN conv
    THEN (IF mdl.absolute THEN conv[axis] ELSE Add(cur, conv[axis]))
    ELSE cur
ArcTarget(start, conv, mdl) ==
    [ x |-> ArcAxis("X", start.x, conv, mdl),
      y |-> ArcAxis("Y", start.y, conv, mdl),
      z |-> ArcAxis("Z", start.z, conv, mdl) ]

\* a discriminant that is not clamped
Max0Unclamped(a) == a

\* Math.max(0, a)
Max0(a) == IF IsNaN(a) THEN NaN ELSE IF a > 0 THEN a ELSE 0

\* a choice that always takes the first candidate
PickCenterFirst(c1, c2, delta1, cw) == c1

\* lines 151-157: c1 when the sweep about it has the sign of the direction
PickCenter(c1, c2, delta1, cw) ==
    IF cw THEN (IF Lt(delta1, 0) THEN c1 ELSE c2)
    ELSE (IF Gt(delta1, 0) THEN c1 ELSE c2)

\* lines 152-157, for the two candidates
PickByCandidate(sx, sy, ex, ey, c1, c2, cw) ==
    PickCenter(c1, c2,
               normalizeAngle(Sub(Atan2(Sub(ey, c1.y), Sub(ex, c1.x)),
                                  Atan2(Sub(sy, c1.y), Sub(sx, c1.x)))),
               cw)

\* lines 147-157: the candidates at h along the unit normal (ux, uy) of the
\* chord, on both sides of its midpoint (mx, my)
Candidates(sx, sy, ex, ey, mx, my, ux, uy, h, cw) ==
    PickByCandidate(sx, sy, ex, ey,
                    [x |-> Add(mx, Mul(ux, h)), y |-> Add(my, Mul(uy, h))],
                    [x |-> Sub(mx, Mul(ux, h)), y |-> Sub(my, Mul(uy, h))],
                    cw)

\* a center for which a negative R asks for the arc on the other side of
\* the chord
ChordCenterSignedR(sx, sy, ex, ey, dx, dy, d, R, cw) ==
    Candidates(sx, sy, ex, ey,
               Div(Add(sx, ex), 2 * Scale), Div(Add(sy, ey), 2 * Scale),
               Div(Sub(0, dy), d), Div(dx, d),
               Sqrt(Max0(Sub(Mul(R, R),
                             Mul(Div(d, 2 * Scale), Div(d, 2 * Scale))))),
               IF Lt(R, 0) THEN ~cw ELSE cw)

\* lines 144-157, for a chord (dx, dy) of length d
ChordCenter(sx, sy, ex, ey, dx, dy, d, R, cw) ==
    Candidates(sx, sy, ex, ey,
               Div(Add(sx, ex), 2 * Scale), Div(Add(sy, ey), 2 * Scale),
               Div(Sub(0, dy), d), Div(dx, d),
               Sqrt(Max0(Sub(Mul(R, R),
                             Mul(Div(d, 2 * Scale), Div(d, 2 * Scale))))),
               cw)

\* the center picked in R mode for a chord of length d # 0 (lines 134-157)
RCenter(start, target, R, cw) ==
    ChordCenter(start.x, start.y, target.x, target.y,
                Sub(target.x, start.x), Sub(target.y, start.y),
                Hypot(Sub(target.x, start.x), Sub(target.y, start.y)),
                R, cw)

\* conv[k] || 0, also for a missing k
WordOrZero(conv, k) == JsOr(IF k \in DOMAIN conv THEN conv[k] ELSE 0, 0)

Found(c) == [found |-> TRUE, x |-> c.x, y |-> c.y]
NotFound == [found |-> FALSE, x |-> 0, y |-> 0]

\* a center that is taken from R whenever the line has an R word
ArcCenterRFirst(start, target, conv, cw) ==
    IF "R" \in DOMAIN conv
    THEN IF Hypot(Sub(target.x, start.x), Sub(target.y, start.y)) = 0
         THEN NotFound
         ELSE Found(RCenter(start, target, conv["R"], cw))
    ELSE IF "I" \in DOMAIN conv \/ "J" \in DOMAIN conv
    THEN Found([ x |-> Add(start.x, WordOrZero(conv, "I")),
                 y |-> Add(start.y, WordOrZero(conv, "J")) ])
    ELSE NotFound

\* the center of the arc (lines 128-161): found is FALSE for the two
\* ignored arcs (R with start = end in XY, and neither I/J nor R)
ArcCenter(start, target, conv, cw) ==
    IF "I" \in DOMAIN conv \/ "J" \in DOMAIN conv
    THEN Found([ x |-> Add(start.x, WordOrZero(conv, "I")),
                 y |-> Add(start.y, WordOrZero(conv, "J")) ])
    ELSE IF "R" \in DOMAIN conv
    THEN IF Hypot(Sub(target.x, start.x), Sub(target.y, start.y)) = 0
         THEN NotFound
         ELSE Found(RCenter(start, target, conv["R"], cw))
    ELSE NotFound

\* radius * sweep, the sweep in radians
ArcLength(radius, sweep) ==
    IF IsNaN(radius) \/ IsNaN(sweep) THEN NaN
    ELSE Quot(radius * sweep, AngScale)

\* the last display sample, or the start when there is none (line 172)
LastSample(points, start) ==
    IF Len(points) > 0 THEN points[Len(points)] ELSE start

\* lines 173-174: the distance from the last sample to the target
FinalSeg(target, last, start) ==
    Hypot3(Sub(target.x, last.x), Sub(target.y, last.y),
           Sub(JsOr(target.z, start.z), JsOr(last.z, start.z)))

\* finalSeg > 1e-9: 1e-9 mm is below the resolution of the model, whose
\* lengths differ by 0 or by 0.01 mm and more
ExceedsTolerance(finalSeg) == Gt(finalSeg, 0)

\* lines 170-177: the samples, then the exact target when it is away from
\* the last of them
ArcPath(pth, points, target, finalSeg) ==
    IF ExceedsTolerance(finalSeg) THEN Append(pth \o points, target)
    ELSE pth \o points

\* line 180: the feed an arc is timed and recorded with
ArcFeed(mdl) ==
    IF Gt(mdl.currentFeed_mm_per_min, 0) THEN mdl.currentFeed_mm_per_min
    ELSE 0

\* lines 179-188
ArcRecord(pth, log, gCode, target, distance, feed) ==
    [ machinePos |-> target,
      path |-> pth,
      movesLog |-> Append(log,
          [ type |-> IF gCode = 2 THEN "G2" ELSE "G3",
            distance_mm |-> distance,
            time_sec |-> IF Gt(feed, 0) THEN MoveTime(distance, feed) ELSE 0,
            feed_mm_per_min |-> feed ]) ]

\* lines 163-188, from the result of interpolateArcXYPoints
ArcFromSamples(start, pth, log, mdl, gCode, target, interp) ==
    ArcRecord(ArcPath(pth, interp.points, target,
                      FinalSeg(target, LastSample(interp.points, start),
                               start)),
              log, gCode, target,
              ArcLength(interp.radius, interp.absDelta), ArcFeed(mdl))

\* an ignored arc that still moves the machine to its target
ArcAboutMovesToTarget(start, pth, log, mdl, gCode, target, center) ==
    IF ~center.found
    THEN [machinePos |-> target, path |-> pth, movesLog |-> log]
    ELSE ArcFromSamples(start, pth, log, mdl, gCode, target,
                        interpolateArcXYPoints(start, target, center,
                                               gCode = 2))

\* lines 127-188, from the center
ArcAbout(start, pth, log, mdl, gCode, target, center) ==
    IF ~center.found
    THEN [machinePos |-> start, path |-> pth, movesLog |-> log]
    ELSE ArcFromSamples(start, pth, log, mdl, gCode, target,
                        interpolateArcXYPoints(start, target, center,
                                               gCode = 2))

\* lines 117-188, from the target
ArcTo(start, pth, log, mdl, gCode, conv, target) ==
    ArcAbout(start, pth, log, mdl, gCode, target,
             ArcCenter(start, target, conv, gCode = 2))

\* handleArc after the conversion of the words (lines 115-188): the new
\* [machinePos, path, movesLog]
ArcMove(pos, pth, log, mdl, gCode, conv) ==
    ArcTo(pos, pth, log, mdl, gCode, conv, ArcTarget(pos, conv, mdl))

\* handleArc(gCode, params)
handleArc(pos, pth, log, mdl, gCode, prm) ==
    ArcMove(pos, pth, log, mdl, gCode, ConvertParams(prm, mdl))

\* ------------------------------------------------ the modal token scan

\* modal.unitsFactor = factor and the recomputation of the rapid feed
\* (lines 230-232, 234-235)
SetUnits(mdl, factor) ==
    [mdl EXCEPT !.unitsFactor = factor,
                !.rapidFeed_mm_per_min =
                    Mul(mdl.rapidFeed_in_in_per_min, factor)]

\* a scan in which G18 and G19 also leave the absolute mode
ModalAfterGPlaneMode(mdl, gnum) ==
    IF gnum = 20 THEN SetUnits(mdl, Inch)
    ELSE IF gnum = 21 THEN SetUnits(mdl, Millimetre)
    ELSE IF gnum = 90 THEN [mdl EXCEPT !.absolute = TRUE]
    ELSE IF gnum = 91 THEN [mdl EXCEPT !.absolute = FALSE]
    ELSE IF gnum = 17 THEN [mdl EXCEPT !.plane = "XY"]
    ELSE IF gnum = 18 THEN [mdl EXCEPT !.plane = "XZ", !.absolute = FALSE]
    ELSE IF gnum = 19 THEN [mdl EXCEPT !.plane = "YZ", !.absolute = FALSE]
    ELSE mdl

\* lines 229-250: the modal state after the G word of number gnum
ModalAfterG(mdl, gnum) ==
    IF gnum = 20 THEN SetUnits(mdl, Inch)
    ELSE IF gnum = 21 THEN SetUnits(mdl, Millimetre)
    ELSE IF gnum = 90 THEN [mdl EXCEPT !.absolute = TRUE]
    ELSE IF gnum = 91 THEN [mdl EXCEPT !.absolute = FALSE]
    ELSE IF gnum = 17 THEN [mdl EXCEPT !.plane = "XY"]
    ELSE IF gnum = 18 THEN [mdl EXCEPT !.plane = "XZ"]
    ELSE IF gnum = 19 THEN [mdl EXCEPT !.plane = "YZ"]
    ELSE mdl

\* lines 246-247: the motion code after the G word of number gnum
MotionAfterG(mG, gnum) ==
    IF gnum \in {20, 21, 90, 91, 17, 18, 19} THEN mG
    ELSE IF gnum \in {0, 1, 2, 3} THEN gnum
    ELSE mG

\* gnum = Math.floor(parseFloat(V))
GNumber(V) == Floor(parseFloat(V))

\* params[L] = num
SetParam(prm, L, num) ==
    [k \in DOMAIN prm \cup {L} |-> IF k = L THEN num ELSE prm[k]]

\* an F word read as mm/min whatever the units
FeedOfWordUnscaled(num, mdl) == num

\* the feed an F word stores (line 257)
FeedOfWord(num, mdl) == Mul(num, mdl.unitsFactor)

\* lines 253-258, for the parsed value num of the word L
StoreWord(mdl, mG, prm, L, num) ==
    [ modal |-> IF L = "F"
                THEN [mdl EXCEPT !.currentFeed_mm_per_min =
                                     FeedOfWord(num, mdl)]
                ELSE mdl,
      motionG |-> mG,
      params |-> SetParam(prm, L, num) ]

\* a scan in which a G word that follows a parameter word of its line
\* changes neither the units nor the mode
StoreGBeforeWords(mdl, mG, prm, gnum) ==
    [ modal |-> IF DOMAIN prm # {} /\ gnum \in {20, 21, 90, 91} THEN mdl
                ELSE ModalAfterG(mdl, gnum),
      motionG |-> MotionAfterG(mG, gnum),
      params |-> prm ]

\* lines 227-250, for the number gnum of the G word
StoreG(mdl, mG, prm, gnum) ==
    [ modal |-> ModalAfterG(mdl, gnum),
      motionG |-> MotionAfterG(mG, gnum),
      params |-> prm ]

\* one iteration of the token loop (lines 224-263): the new
\* [modal, motionG, params]
ScanToken(mdl, mG, prm, tk) ==
    IF tk.letter = "G" THEN StoreG(mdl, mG, prm, GNumber(tk.value))
    ELSE IF tk.letter \in ParamLetters /\ tk.value # <<>>
    THEN StoreWord(mdl, mG, prm, tk.letter, parseFloat(tk.value))
    ELSE [modal |-> mdl, motionG |-> mG, params |-> prm]

\* ['X','Y','Z'].some(k => k in params)
HasAxisWord(prm) == \E i \in 1..3 : AxisLetters[i] \in DOMAIN prm

\* a rapid move timed with the F word
RapidFeedFromF(mdl) == mdl.currentFeed_mm_per_min

\* the feed a G0 move is recorded with (line 277)
RapidFeed(mdl) == mdl.rapidFeed_mm_per_min
\* the feed a G1 or implicit move is recorded with (lines 288, 304)
LinearFeed(mdl) == mdl.currentFeed_mm_per_min

\* the dispatch after the token loop (lines 266-306): the new
\* [machinePos, path, movesLog]
Dispatch(pos, pth, log, mdl, mG, prm) ==
    IF mG = 0
    THEN recordLinearMove(pos, pth, log, LinearTarget(pos, prm, mdl),
                          RapidFeed(mdl), "G0")
    ELSE IF mG = 1 \/ (mG = NoMotion /\ HasAxisWord(prm))
    THEN recordLinearMove(pos, pth, log, LinearTarget(pos, prm, mdl),
                          LinearFeed(mdl), "G1")
    ELSE IF mG \in {2, 3}
    THEN handleArc(pos, pth, log, mdl, mG, prm)
    ELSE [machinePos |-> pos, path |-> pth, movesLog |-> log]

\* a reset that leaves the units of the pass before it in place
ResetModalKeepUnits(mdl) ==
    [mdl EXCEPT !.absolute = TRUE,
                !.plane = "XY",
                !.currentFeed_mm_per_min = 1000 * Scale,
                !.rapidFeed_mm_per_min =
                    Mul(mdl.rapidFeed_in_in_per_min, mdl.unitsFactor)]

\* the reset of the modal state at the start of evaluateCode (lines 200-205)
ResetModal(mdl) ==
    [mdl EXCEPT !.absolute = TRUE,
                !.unitsFactor = Millimetre,
                !.plane = "XY",
                !.currentFeed_mm_per_min = 1000 * Scale,
                !.rapidFeed_mm_per_min =
                    Mul(mdl.rapidFeed_in_in_per_min, Millimetre)]

Origin == [x |-> 0, y |-> 0, z |-> 0]

\* updateStatsUI (lines 337-338): the sum of a field of the move log,
\* s + (m.field || 0)
RECURSIVE SumField(_, _)
SumField(log, f) ==
    IF log = <<>> THEN 0
    ELSE Add(SumField(SubSeq(log, 1, Len(log) - 1), f),
             JsOr(log[Len(log)][f], 0))

\* ------------------------------------------------- a pass as a whole

\* the token loop over all the tokens of a line: [modal, motionG, params]
RECURSIVE ScanAll(_, _)
ScanAll(r, tks) ==
    IF tks = <<>> THEN r
    ELSE ScanAll(ScanToken(r.modal, r.motionG, r.params, Head(tks)), Tail(tks))

\* the dispatch of a scanned line, in a pass state st =
\* [machinePos, path, movesLog, modal]
AfterDispatch(mdl, r) ==
    [machinePos |-> r.machinePos, path |-> r.path, movesLog |-> r.movesLog,
     modal |-> mdl]
DispatchScanned(st, r) ==
    AfterDispatch(r.modal,
                  Dispatch(st.machinePos, st.path, st.movesLog, r.modal,
                           r.motionG, r.params))

\* the forEach callback on the cleaned line (lines 216-306)
ProcessClean(st, line) ==
    IF line = <<>> THEN st
    ELSE DispatchScanned(st,
             ScanAll([modal |-> st.modal, motionG |-> NoMotion,
                      params |-> NoParams],
                     parseTokensFromLine(line)))

\* the forEach callback (lines 209-307) on one raw line
ProcessLine(st, raw) == ProcessClean(st, CleanLine(raw))

\* lines.forEach over the lines ls
RECURSIVE RunLines(_, _)
RunLines(st, ls) ==
    IF ls = <<>> THEN st
    ELSE RunLines(ProcessLine(st, Head(ls)), Tail(ls))

\* the reset of evaluateCode (lines 194-205) from a modal state mdl
ResetState(mdl) ==
    [machinePos |-> Origin, path |-> <<Origin>>, movesLog |-> <<>>,
     modal |-> ResetModal(mdl)]

\* evaluateCode as the first pass after the script has loaded, on the text
\* of lines ls
FirstPass(ls) == RunLines(ResetState(InitialModal), ls)

\* ------------------------------------------------------------ input

\* the raw lines a program text is made of, character by character
Lines ==
    {
      \* (c)
      <<"(", "c", ")">>,
      \* G20
      <<"G", "2", "0">>,
      \* G21
      <<"G", "2", "1">>,
      \* G91
      <<"G", "9", "1">>,
      \* G18
      <<"G", "1", "8">>,
      \* F0
      <<"F", "0">>,
      \* F10
      <<"F", "1", "0">>,
      \* G20F10
      <<"G", "2", "0", "F", "1", "0">>,
      \* F10G20
      <<"F", "1", "0", "G", "2", "0">>,
      \* G1X5
      <<"G", "1", "X", "5">>,
      \* G91G1X5
      <<"G", "9", "1", "G", "1", "X", "5">>,
      \* n5 g0 x5 f600 ;c
      <<"n", "5", " ", "g", "0", " ", "x", "5", " ", "f", "6", "0", "0",
        " ", ";", "c">>,
      \* G90 G21 G1 X10 Y0 F600
      <<"G", "9", "0", " ", "G", "2", "1", " ", "G", "1", " ", "X", "1",
        "0", " ", "Y", "0", " ", "F", "6", "0", "0">>,
      \* G1X1Y2Z2
      <<"G", "1", "X", "1", "Y", "2", "Z", "2">>,
      \* X-5
      <<"X", "-", "5">>,
      \* Z2
      <<"Z", "2">>,
      \* G1X5F-100
      <<"G", "1", "X", "5", "F", "-", "1", "0", "0">>,
      \* G1X-
      <<"G", "1", "X", "-">>,
      \* M3G4
      <<"M", "3", "G", "4">>,
      \* G2R5
      <<"G", "2", "R", "5">>,
      \* G2X-I5
      <<"G", "2", "X", "-", "I", "5">>,
      \* G2X0Y0I-5
      <<"G", "2", "X", "0", "Y", "0", "I", "-", "5">>,
      \* G3X6R5
      <<"G", "3", "X", "6", "R", "5">>,
      \* G2X6I3J-4
      <<"G", "2", "X", "6", "I", "3", "J", "-", "4">>,
      \* G2X6I3J4
      <<"G", "2", "X", "6", "I", "3", "J", "4">>,
      \* G3X10I5
      <<"G", "3", "X", "1", "0", "I", "5">>
    }

\* ---------------------------------------------------------- actions

\* the script's top-level declarations (lines 5-21), before line 440 calls
\* evaluateCode for the first time
Init ==
    /\ machinePos = Origin
    /\ path = <<>>
    /\ movesLog = <<>>
    /\ modal = InitialModal
    /\ lines = <<>>
    /\ tokens = <<>>
    /\ motionG = NoMotion
    /\ params = NoParams
    /\ pc = "load"
    /\ leftover = FALSE

\* evaluateCode, lines 193-208: the reset.  It runs at load and on every
\* input event of the codebox
EvaluateCode ==
    /\ pc \in {"load", "idle"}
    /\ path' = <<Origin>>
    /\ movesLog' = <<>>
    /\ machinePos' = Origin
    /\ modal' = ResetModal(modal)
    /\ lines' = <<>>
    /\ tokens' = <<>>
    /\ motionG' = NoMotion
    /\ params' = NoParams
    /\ pc' = "line"
    /\ leftover' = (pc = "idle" /\ modal # ResetModal(modal))

\* lines 210-216: the next line of the text is empty after the cleanup
SkipLine(S) ==
    /\ pc = "line"
    /\ Len(lines) < MaxLines
    /\ \E raw \in S :
         /\ CleanLine(raw) = <<>>
         /\ lines' = Append(lines, raw)
    /\ UNCHANGED <<machinePos, path, movesLog, modal, tokens, motionG, params,
                   pc, leftover>>

\* lines 210-223: the next line of the text is cleaned and tokenized
TokenizeLine(S) ==
    /\ pc = "line"
    /\ Len(lines) < MaxLines
    /\ \E raw \in S :
         /\ CleanLine(raw) # <<>>
         /\ lines' = Append(lines, raw)
         /\ tokens' = parseTokensFromLine(CleanLine(raw))
    /\ motionG' = NoMotion
    /\ params' = NoParams
    /\ pc' = "scan"
    /\ UNCHANGED <<machinePos, path, movesLog, modal, leftover>>

\* one iteration of the token loop, by the kind of the token
ScanTo(r) ==
    /\ modal' = r.modal
    /\ motionG' = r.motionG
    /\ params' = r.params
    /\ tokens' = Tail(tokens)
    /\ UNCHANGED <<machinePos, path, movesLog, lines, pc, leftover>>
ScanStep == ScanTo(ScanToken(modal, motionG, params, Head(tokens)))

ScanG ==
    /\ pc = "scan" /\ tokens # <<>> /\ Head(tokens).letter = "G"
    /\ ScanStep

ScanParam ==
    /\ pc = "scan" /\ tokens # <<>> /\ Head(tokens).letter \in ParamLetters
    /\ ScanStep

ScanIgnored ==
    /\ pc = "scan" /\ tokens # <<>>
    /\ Head(tokens).letter \notin ParamLetters \cup {"G"}
    /\ ScanStep

\* the dispatch after the token loop, by the kind of the move
DispatchTo(r) ==
    /\ machinePos' = r.machinePos
    /\ path' = r.path
    /\ movesLog' = r.movesLog
    /\ motionG' = NoMotion
    /\ params' = NoParams
    /\ pc' = "line"
    /\ UNCHANGED <<modal, lines, tokens, leftover>>
DispatchStep ==
    DispatchTo(Dispatch(machinePos, path, movesLog, modal, motionG, params))

MoveRapid ==
    /\ pc = "scan" /\ tokens = <<>> /\ motionG = 0
    /\ DispatchStep

MoveLinear ==
    /\ pc = "scan" /\ tokens = <<>> /\ motionG = 1
    /\ DispatchStep

MoveArc ==
    /\ pc = "scan" /\ tokens = <<>> /\ motionG \in {2, 3}
    /\ DispatchStep

MoveImplicit ==
    /\ pc = "scan" /\ tokens = <<>> /\ motionG = NoMotion
    /\ HasAxisWord(params)
    /\ DispatchStep

NoMove ==
    /\ pc = "scan" /\ tokens = <<>> /\ motionG = NoMotion
    /\ ~HasAxisWord(params)
    /\ DispatchStep

\* lines 309-310, after the last line: drawToolpath and updateStatsUI read
\* path, movesLog and modal and change none of them
Finish ==
    /\ pc = "line"
    /\ Len(lines) >= 1
    /\ pc' = "idle"
    /\ UNCHANGED <<machinePos, path, movesLog, modal, lines, tokens, motionG,
                   params, leftover>>

Next ==
    \/ EvaluateCode
    \/ SkipLine(Lines)
    \/ TokenizeLine(Lines)
    \/ ScanG
    \/ ScanParam
    \/ ScanIgnored
    \/ MoveRapid
    \/ MoveLinear
    \/ MoveArc
    \/ MoveImplicit
    \/ NoMove
    \/ Finish

Spec == Init /\ [][Next]_vars

\* the raw lines of the programs that exercise the arcs: degenerate arcs,
\* a full circle, a helix, I/J with and without R, an R too small for its
\* chord, next to a line of every other kind
ArcLines ==
    {
      \* (c)
      <<"(", "c", ")">>,
      \* G91
      <<"G", "9", "1">>,
      \* G20
      <<"G", "2", "0">>,
      \* M3G0X5
      <<"M", "3", "G", "0", "X", "5">>,
      \* G1X5
      <<"G", "1", "X", "5">>,
      \* Z2
      <<"Z", "2">>,
      \* G91G2Z2F10
      <<"G", "9", "1", "G", "2", "Z", "2", "F", "1", "0">>,
      \* G2Z2R5
      <<"G", "2", "Z", "2", "R", "5">>,
      \* G17 G2 X0 Y0 I-5 J0
      <<"G", "1", "7", " ", "G", "2", " ", "X", "0", " ", "Y", "0", " ",
        "I", "-", "5", " ", "J", "0">>,
      \* G3X6I3J4Z2
      <<"G", "3", "X", "6", "I", "3", "J", "4", "Z", "2">>,
      \* G2X6I3J-4
      <<"G", "2", "X", "6", "I", "3", "J", "-", "4">>,
      \* G2X6I3J-4Z0
      <<"G", "2", "X", "6", "I", "3", "J", "-", "4", "Z", "0">>,
      \* G2X6I3J-4R9
      <<"G", "2", "X", "6", "I", "3", "J", "-", "4", "R", "9">>,
      \* G3X10I5R9
      <<"G", "3", "X", "1", "0", "I", "5", "R", "9">>,
      \* G2X10R2
      <<"G", "2", "X", "1", "0", "R", "2">>,
      \* G3X6R5
      <<"G", "3", "X", "6", "R", "5">>
    }

\* the same program run on texts made of ArcLines
NextArc ==
    \/ EvaluateCode
    \/ SkipLine(ArcLines)
    \/ TokenizeLine(ArcLines)
    \/ ScanG
    \/ ScanParam
    \/ ScanIgnored
    \/ MoveRapid
    \/ MoveLinear
    \/ MoveArc
    \/ MoveImplicit
    \/ NoMove
    \/ Finish

SpecArc == Init /\ [][NextArc]_vars

\* the raw lines of the programs that exercise the words: G words with
\* other numbers, other letters, lines without a motion word, plane words,
\* words made of a sign or a dot alone
WordLines ==
    {
      \* (c)
      <<"(", "c", ")">>,
      \* G91.1
      <<"G", "9", "1", ".", "1">>,
      \* M3S1000T1
      <<"M", "3", "S", "1", "0", "0", "0", "T", "1">>,
      \* G4P1
      <<"G", "4", "P", "1">>,
      \* G0X5
      <<"G", "0", "X", "5">>,
      \* G1X5
      <<"G", "1", "X", "5">>,
      \* G2X6I3J-4K9
      <<"G", "2", "X", "6", "I", "3", "J", "-", "4", "K", "9">>,
      \* X5
      <<"X", "5">>,
      \* G91X5
      <<"G", "9", "1", "X", "5">>,
      \* G20X1
      <<"G", "2", "0", "X", "1">>,
      \* G4X5
      <<"G", "4", "X", "5">>,
      \* G0.5X5
      <<"G", "0", ".", "5", "X", "5">>,
      \* G90
      <<"G", "9", "0">>,
      \* G17
      <<"G", "1", "7">>,
      \* G18
      <<"G", "1", "8">>,
      \* G19
      <<"G", "1", "9">>,
      \* G1X-
      <<"G", "1", "X", "-">>,
      \* G1Y.
      <<"G", "1", "Y", ".">>,
      \* F-
      <<"F", "-">>,
      \* G1X+2.5
      <<"G", "1", "X", "+", "2", ".", "5">>
    }

\* the same program run on texts made of WordLines
NextWords ==
    \/ EvaluateCode
    \/ SkipLine(WordLines)
    \/ TokenizeLine(WordLines)
    \/ ScanG
    \/ ScanParam
    \/ ScanIgnored
    \/ MoveRapid
    \/ MoveLinear
    \/ MoveArc
    \/ MoveImplicit
    \/ NoMove
    \/ Finish

SpecWords == Init /\ [][NextWords]_vars

\* the raw lines of the programs that exercise the order of the words of a
\* line: a unit or mode word after the axis words, several motion words, a
\* repeated axis word, motion words without an axis word
OrderLines ==
    {
      \* (c)
      <<"(", "c", ")">>,
      \* G1X1G20
      <<"G", "1", "X", "1", "G", "2", "0">>,
      \* G1X5G91
      <<"G", "1", "X", "5", "G", "9", "1">>,
      \* X5G91
      <<"X", "5", "G", "9", "1">>,
      \* G0X2G20
      <<"G", "0", "X", "2", "G", "2", "0">>,
      \* G2X6I3J-4G91
      <<"G", "2", "X", "6", "I", "3", "J", "-", "4", "G", "9", "1">>,
      \* G3X6R5G20
      <<"G", "3", "X", "6", "R", "5", "G", "2", "0">>,
      \* F10G20
      <<"F", "1", "0", "G", "2", "0">>,
      \* G0G1G0.5X5
      <<"G", "0", "G", "1", "G", "0", ".", "5", "X", "5">>,
      \* G0G1X5
      <<"G", "0", "G", "1", "X", "5">>,
      \* G1G0X5
      <<"G", "1", "G", "0", "X", "5">>,
      \* G1G2X6I3J-4
      <<"G", "1", "G", "2", "X", "6", "I", "3", "J", "-", "4">>,
      \* G2X6I3J-4G1
      <<"G", "2", "X", "6", "I", "3", "J", "-", "4", "G", "1">>,
      \* G1X1X5
      <<"G", "1", "X", "1", "X", "5">>,
      \* M3G1
      <<"M", "3", "G", "1">>,
      \* G0
      <<"G", "0">>
    }

NextOrder ==
    \/ EvaluateCode
    \/ SkipLine(OrderLines)
    \/ TokenizeLine(OrderLines)
    \/ ScanG
    \/ ScanParam
    \/ ScanIgnored
    \/ MoveRapid
    \/ MoveLinear
    \/ MoveArc
    \/ MoveImplicit
    \/ NoMove
    \/ Finish

SpecOrder == Init /\ [][NextOrder]_vars

\* the raw lines of the programs that exercise the arcs given by R: minor
\* arcs and half turns in both directions, R and -R, an R too small for
\* its chord, from several start points
RadiusLines ==
    {
      \* (c)
      <<"(", "c", ")">>,
      \* M3
      <<"M", "3">>,
      \* G91
      <<"G", "9", "1">>,
      \* G1X2Y3
      <<"G", "1", "X", "2", "Y", "3">>,
      \* G0Y4
      <<"G", "0", "Y", "4">>,
      \* X1
      <<"X", "1">>,
      \* G2X10R5
      <<"G", "2", "X", "1", "0", "R", "5">>,
      \* G3X10R5
      <<"G", "3", "X", "1", "0", "R", "5">>,
      \* G2X6R5
      <<"G", "2", "X", "6", "R", "5">>,
      \* G2X6R-5
      <<"G", "2", "X", "6", "R", "-", "5">>,
      \* G3X6R5
      <<"G", "3", "X", "6", "R", "5">>,
      \* G3X6R-5
      <<"G", "3", "X", "6", "R", "-", "5">>,
      \* G2X10R2
      <<"G", "2", "X", "1", "0", "R", "2">>,
      \* G3X10R-2
      <<"G", "3", "X", "1", "0", "R", "-", "2">>,
      \* G2X6Y8R5
      <<"G", "2", "X", "6", "Y", "8", "R", "5">>,
      \* G3Y-6R4
      <<"G", "3", "Y", "-", "6", "R", "4">>
    }

NextRadius ==
    \/ EvaluateCode
    \/ SkipLine(RadiusLines)
    \/ TokenizeLine(RadiusLines)
    \/ ScanG
    \/ ScanParam
    \/ ScanIgnored
    \/ MoveRapid
    \/ MoveLinear
    \/ MoveArc
    \/ MoveImplicit
    \/ NoMove
    \/ Finish

SpecRadius == Init /\ [][NextRadius]_vars

\* ------------------------------------------------------- properties

\* the entry the step has appended to the move log
LastMove(log) == log[Len(log)]

\* the token loop is over and the line has a G0, G1 or implicit move
LinearDispatch ==
    /\ pc = "scan" /\ tokens = <<>>
    /\ (motionG \in {0, 1} \/ (motionG = NoMotion /\ HasAxisWord(params)))

\* the token loop is over and the line has a G2 or G3 move
ArcDispatch == pc = "scan" /\ tokens = <<>> /\ motionG \in {2, 3}

\* C1: after every processed line and at the end of the pass the path has at
\* least one point more than the move log has entries
C1_PathCoversMoves ==
    pc \in {"line", "idle"} => Len(path) >= Len(movesLog) + 1

\* C2: a pass is independent of every earlier pass: at the end of a pass,
\* whatever passes came before it, the path, the move log, the position and
\* the modal state are those of the first pass over the same text
C2_PassIndependent ==
    pc = "idle" =>
        [machinePos |-> machinePos, path |-> path, movesLog |-> movesLog,
         modal |-> modal] = FirstPass(lines)

\* a pass with moves has ended, and it began over the modal state that the
\* pass before it had changed
C2_SecondPassDone == leftover /\ pc = "idle" /\ movesLog # <<>>

\* C3: in every reachable modal state, the initial one included, the rapid
\* feed is the rapid feed source times the units factor
C3_RapidFeedIsSourceTimesFactor ==
    modal.rapidFeed_mm_per_min =
        Mul(modal.rapidFeed_in_in_per_min, modal.unitsFactor)

\* the step scans an F word that has a value
C4_ScansF ==
    /\ pc = "scan" /\ tokens # <<>>
    /\ Head(tokens).letter = "F" /\ Head(tokens).value # <<>>

C4_Step ==
    IF C4_ScansF
    THEN modal'.currentFeed_mm_per_min =
             Mul(parseFloat(Head(tokens).value), modal.unitsFactor)
    ELSE pc \in {"line", "scan"} =>
             modal'.currentFeed_mm_per_min = modal.currentFeed_mm_per_min

\* C4: an F word sets the current feed to its value times the units factor
\* in effect when the word is scanned; no other step of a pass (a G20/G21
\* after it, a later line, a move) changes the current feed
C4_FeedWord == [][C4_Step]_vars

\* F10 was scanned in millimetres and a G20 after it left the feed at
\* 10 mm/min
C4_FeedNotRescaled ==
    /\ pc = "line" /\ lines # <<>>
    /\ lines[Len(lines)] = <<"F", "1", "0", "G", "2", "0">>
    /\ modal.unitsFactor = Inch
    /\ modal.currentFeed_mm_per_min = 10 * Scale

\* the last word of letter L among the tokens tks that has a value
RECURSIVE C5_LastWord(_, _)
C5_LastWord(tks, L) ==
    IF tks = <<>> THEN [found |-> FALSE, value |-> 0]
    ELSE IF tks[Len(tks)].letter = L /\ tks[Len(tks)].value # <<>>
    THEN [found |-> TRUE, value |-> parseFloat(tks[Len(tks)].value)]
    ELSE C5_LastWord(SubSeq(tks, 1, Len(tks) - 1), L)

\* the words of the line being dispatched
C5_LineWords == parseTokensFromLine(CleanLine(lines[Len(lines)]))

\* where the axis of letter L must end, from its current value cur
C5_Expected(L, cur) ==
    IF ~C5_LastWord(C5_LineWords, L).found THEN cur
    ELSE IF modal.absolute
    THEN Mul(C5_LastWord(C5_LineWords, L).value, modal.unitsFactor)
    ELSE Add(cur, Mul(C5_LastWord(C5_LineWords, L).value, modal.unitsFactor))

C5_Step ==
    /\ LinearDispatch =>
         /\ machinePos'.x = C5_Expected("X", machinePos.x)
         /\ machinePos'.y = C5_Expected("Y", machinePos.y)
         /\ machinePos'.z = C5_Expected("Z", machinePos.z)
    /\ (pc \in {"line", "scan"} /\ modal'.absolute # modal.absolute) =>
         /\ pc = "scan" /\ tokens # <<>> /\ Head(tokens).letter = "G"
         /\ GNumber(Head(tokens).value) = (IF modal'.absolute THEN 90 ELSE 91)

\* G91 G1 X5 followed by G1 X5 from the origin
C5_Example ==
    (pc = "line" /\ lines = << <<"G", "9", "1", "G", "1", "X", "5">>,
                               <<"G", "1", "X", "5">> >>)
    => /\ machinePos.x = 10 * Scale
       /\ Len(movesLog) = 2
       /\ movesLog[1].distance_mm = 5 * Scale
       /\ movesLog[2].distance_mm = 5 * Scale

\* C5: a G0/G1/implicit move sets each axis that has a word to
\* value * unitsFactor in absolute mode and to position + value * unitsFactor
\* in incremental mode, and keeps the others; the G90/G91 flag changes only
\* on a G90/G91 word, so G91 G1 X5 then G1 X5 ends at x = 10 with two moves
\* of 5 mm
C5_LinearTarget == [][C5_Step]_vars /\ []C5_Example

\* the second, still incremental, G1 X5 has ended at x = 10
C5_IncrementalPersists ==
    /\ pc = "line"
    /\ lines = << <<"G", "9", "1", "G", "1", "X", "5">>,
                  <<"G", "1", "X", "5">> >>
    /\ machinePos.x = 10 * Scale
    /\ ~modal.absolute

\* the same move written in millimetres: every word 25.4 times as large,
\* under G21, from the same start and with the same current feed
C6_Metric ==
    Dispatch(machinePos, path, movesLog, SetUnits(modal, Millimetre), motionG,
             [k \in DOMAIN params |-> Mul(params[k], Inch)])

C6_Step ==
    (LinearDispatch /\ modal.unitsFactor = Inch) =>
        /\ machinePos' = C6_Metric.machinePos
        /\ LastMove(movesLog').distance_mm =
               LastMove(C6_Metric.movesLog).distance_mm
        /\ motionG # 0 =>
               LastMove(movesLog').time_sec =
                   LastMove(C6_Metric.movesLog).time_sec

\* C6: a linear move of a units under G20 reaches the same target and
\* records the same distance as the move of 25.4 * a under G21 from the same
\* start, and the same time when the feeds in mm/min are equal
C6_UnitEquivalence == [][C6_Step]_vars

\* a move of 5 inches has been recorded as 127 mm
C6_InchMoveDone ==
    /\ pc = "line" /\ modal.unitsFactor = Inch /\ movesLog # <<>>
    /\ LastMove(movesLog).type = "G1"
    /\ LastMove(movesLog).distance_mm = 127 * Scale
    /\ machinePos.x = 127 * Scale

C7_Step ==
    LinearDispatch =>
        /\ Len(movesLog') = Len(movesLog) + 1
        /\ IF motionG = 0
           THEN /\ LastMove(movesLog').type = "G0"
                /\ LastMove(movesLog').feed_mm_per_min =
                       Mul(modal.rapidFeed_in_in_per_min, modal.unitsFactor)
           ELSE /\ LastMove(movesLog').type = "G1"
                /\ LastMove(movesLog').feed_mm_per_min =
                       modal.currentFeed_mm_per_min

\* G90 G21 G1 X10 Y0 F600 from the origin: one linear move of 10 mm, 1.0 s
C7_Example ==
    (pc = "line" /\ lines = << <<"G", "9", "0", " ", "G", "2", "1", " ",
                                 "G", "1", " ", "X", "1", "0", " ", "Y", "0",
                                 " ", "F", "6", "0", "0">> >>)
    => movesLog = << [ type |-> "G1", distance_mm |-> 10 * Scale,
                       time_sec |-> 1 * Scale,
                       feed_mm_per_min |-> 600 * Scale ] >>

\* n5 g0 x5 f600 ;c from the origin: the rapid move is recorded with the
\* rapid feed, 24 mm/min in millimetres, not with the F word
C7_RapidExample ==
    (pc = "line" /\ lines = << <<"n", "5", " ", "g", "0", " ", "x", "5", " ",
                                 "f", "6", "0", "0", " ", ";", "c">> >>)
    => /\ Len(movesLog) = 1
       /\ movesLog[1].type = "G0"
       /\ movesLog[1].feed_mm_per_min = 24 * Scale

\* C7: after the whole line has been scanned, a G0 move is recorded with
\* rapidFeedSource * unitsFactor whatever F words there are, and a G1 or
\* implicit move with the current feed, which an F word anywhere on the line
\* has set; G90 G21 G1 X10 Y0 F600 gives one linear move of 10 mm and 1.0 s
C7_FeedByKind == [][C7_Step]_vars /\ []C7_Example /\ []C7_RapidExample

\* the line G90 G21 G1 X10 Y0 F600 has been processed and its move is timed
\* with the F word that follows the axis words
C7_ExampleDone ==
    /\ pc = "line"
    /\ Len(lines) = 1 /\ Len(lines[1]) = 22
    /\ Len(movesLog) = 1
    /\ movesLog[1].time_sec = 1 * Scale
    /\ modal.currentFeed_mm_per_min = 600 * Scale

\* C8: every move record has distance >= 0 and time >= 0, and a record whose
\* feed is <= 0 has time exactly 0
C8_NonNegative ==
    \A i \in 1..Len(movesLog) :
        /\ Ge(movesLog[i].distance_mm, 0)
        /\ Ge(movesLog[i].time_sec, 0)
        /\ Le(movesLog[i].feed_mm_per_min, 0) => movesLog[i].time_sec = 0

\* C9: every move record, of every kind, has a feed >= 0
C9_FeedNonNegative ==
    \A i \in 1..Len(movesLog) : Ge(movesLog[i].feed_mm_per_min, 0)

\* the words of the arc being dispatched, in millimetres
C10_Conv == ConvertParams(params, modal)
C10_Target == ArcTarget(machinePos, C10_Conv, modal)
C10_Center == ArcCenter(machinePos, C10_Target, C10_Conv, motionG = 2)
C10_Radius ==
    Hypot(Sub(machinePos.x, C10_Center.x), Sub(machinePos.y, C10_Center.y))

\* the line gives the arc by I/J and the end point is on the circle about
\* the center, at the radius of the start point
C10_IJArc ==
    /\ ArcDispatch
    /\ ("I" \in DOMAIN params \/ "J" \in DOMAIN params)
    /\ ~IsNaN(C10_Radius)
    /\ Hypot(Sub(C10_Target.x, C10_Center.x),
             Sub(C10_Target.y, C10_Center.y)) = C10_Radius

\* the sweep of the I/J arc, in radians
C10_Sweep ==
    interpolateArcXYPoints(machinePos, C10_Target, C10_Center,
                           motionG = 2).absDelta

\* the same arc given by R: the same axis words, R the radius of the I/J arc
C10_ByR ==
    ArcMove(machinePos, path, movesLog, modal, motionG,
            [k \in ((DOMAIN C10_Conv) \ {"I", "J"}) \cup {"R"} |->
                IF k = "R" THEN C10_Radius ELSE C10_Conv[k]])

\* 1e-6 mm in the unit of the model, which is 0 at its resolution
C10_Tolerance == Scale \div 1000000

\* the I/J arc of the step and its R form have recorded the same distance
C10_SameDistance ==
    /\ Len(C10_ByR.movesLog) = Len(movesLog) + 1
    /\ Len(movesLog') = Len(movesLog) + 1
    /\ Abs(LastMove(movesLog').distance_mm
           - LastMove(C10_ByR.movesLog).distance_mm) <= C10_Tolerance

C10_AnySweepStep == C10_IJArc => C10_SameDistance

\* C10 as stated: an arc given by I/J and the arc given by R equal to its
\* radius, with the same start, end and direction, record the same distance
\* within 1e-6 mm whatever the sweep of the I/J arc
C10_AnySweep == [][C10_AnySweepStep]_vars

C10_MinorStep ==
    (C10_IJArc /\ Le(C10_Sweep, PI)) => C10_SameDistance

\* C10: an arc given by I/J whose sweep is at most a half turn and the arc
\* given by R equal to its radius, with the same start, end and direction,
\* record the same distance within 1e-6 mm
C10_UpToHalfTurn == [][C10_MinorStep]_vars

\* the minor arc G2 X6 I3 J-4 from the origin has been recorded: radius 5,
\* chord 6, 6.43 mm
C10_MinorArcDone ==
    /\ pc = "line" /\ lines # <<>>
    /\ lines[Len(lines)] = <<"G", "2", "X", "6", "I", "3", "J", "-", "4">>
    /\ machinePos = [x |-> 6 * Scale, y |-> 0, z |-> 0]
    /\ Len(movesLog) = 1
    /\ movesLog[1].type = "G2"
    /\ movesLog[1].distance_mm > 6 * Scale
    /\ movesLog[1].distance_mm < 7 * Scale

\* the line being dispatched is an arc with a center: it has an I or a J
\* word, or an R word and a chord that is not null
C11_ArcWithCenter == ArcDispatch /\ C10_Center.found

\* the radius and the sweep of the arc being dispatched, from its start,
\* target, center and direction alone
C11_Sweep ==
    ForcedDelta(Atan2(Sub(machinePos.y, C10_Center.y),
                      Sub(machinePos.x, C10_Center.x)),
                Atan2(Sub(C10_Target.y, C10_Center.y),
                      Sub(C10_Target.x, C10_Center.x)),
                motionG = 2)

C11_Step ==
    C11_ArcWithCenter =>
        /\ Len(movesLog') = Len(movesLog) + 1
        /\ LastMove(movesLog').distance_mm =
               ArcLength(C10_Radius, AbsN(C11_Sweep))
        /\ Gt(modal.currentFeed_mm_per_min, 0) =>
               LastMove(movesLog').time_sec =
                   MoveTime(LastMove(movesLog').distance_mm,
                            modal.currentFeed_mm_per_min)
        /\ Len(path') >= Len(path) + 6

\* C11: a G2/G3 move that is not degenerate appends exactly one move record,
\* of distance radius * |sweep| and of time distance / currentFeed * 60 when
\* currentFeed > 0, whatever the display samples are, and at least 6 points
\* to the path
C11_ArcRecord == [][C11_Step]_vars

\* the arc being dispatched is degenerate: neither I/J nor R, or R with a
\* null chord from the start to the target in XY
C12_Degenerate ==
    /\ ArcDispatch
    /\ "I" \notin DOMAIN params /\ "J" \notin DOMAIN params
    /\ \/ "R" \notin DOMAIN params
       \/ Hypot(Sub(C10_Target.x, machinePos.x),
                Sub(C10_Target.y, machinePos.y)) = 0

C12_Step ==
    C12_Degenerate =>
        /\ machinePos' = machinePos
        /\ path' = path
        /\ movesLog' = movesLog
        /\ SumField(movesLog', "distance_mm") = SumField(movesLog, "distance_mm")
        /\ SumField(movesLog', "time_sec") = SumField(movesLog, "time_sec")
        /\ modal' = modal
        /\ lines' = lines
        /\ pc' = "line"

\* G91 G2 Z2 F10 (no center) followed by G1 X5: the arc line has left the
\* position, the path and the move log alone and its G91 and F10 stand; the
\* next line is processed, an incremental move of 5 mm at 10 mm/min
C12_Example ==
    (pc = "line" /\ lines = << <<"G", "9", "1", "G", "2", "Z", "2", "F", "1",
                                 "0">>,
                               <<"G", "1", "X", "5">> >>)
    => /\ machinePos = [x |-> 5 * Scale, y |-> 0, z |-> 0]
       /\ Len(path) = 2
       /\ Len(movesLog) = 1
       /\ movesLog[1].type = "G1"
       /\ movesLog[1].distance_mm = 5 * Scale
       /\ movesLog[1].feed_mm_per_min = 10 * Scale
       /\ ~modal.absolute

\* C12: a degenerate arc line (no I/J and no R, or R with a null chord in
\* XY) leaves the position, the path, the move log and so the totals as they
\* were, also with a Z word, keeps the modal changes of its G and F words,
\* and the lines after it are processed
C12_DegenerateArc == [][C12_Step]_vars /\ []C12_Example

\* the R arc with a null chord and a Z word, G2 Z2 R5, has been dispatched
\* after a move: nothing was recorded for it and z is still 0
C12_IgnoredAfterMove ==
    /\ pc = "line"
    /\ lines = << <<"G", "1", "X", "5">>, <<"G", "2", "Z", "2", "R", "5">> >>
    /\ machinePos = [x |-> 5 * Scale, y |-> 0, z |-> 0]
    /\ Len(movesLog) = 1
    /\ Len(path) = 2

\* the numbers of the G words that the interpreter knows
C13_KnownG == {0, 1, 2, 3, 17, 18, 19, 20, 21, 90, 91}

\* the word is not recognized: a G word whose number is none of the known
\* ones, or a word of another letter than G, X, Y, Z, I, J, K, R, F
C13_Unrecognized(tk) ==
    \/ /\ tk.letter = "G"
       /\ \A n \in C13_KnownG : parseFloat(tk.value) # n * Scale
    \/ tk.letter \notin ParamLetters \cup {"G"}

C13_Step ==
    (pc = "scan" /\ tokens # <<>> /\ C13_Unrecognized(Head(tokens))) =>
        /\ modal' = modal
        /\ machinePos' = machinePos
        /\ path' = path
        /\ movesLog' = movesLog
        /\ motionG' = motionG
        /\ params' = params

\* C13: a G word whose number is none of 0, 1, 2, 3, 17, 18, 19, 20, 21, 90,
\* 91 and a word whose letter is none of G, X, Y, Z, I, J, K, R, F change
\* neither the modal state, nor the position, the path, the move log or what
\* the line will do
C13_UnrecognizedIgnored == [][C13_Step]_vars

\* the line being dispatched has a G word of number 0, 1, 2 or 3
C14_HasMotionWord ==
    \E i \in 1..Len(C5_LineWords) :
        /\ C5_LineWords[i].letter = "G"
        /\ \E n \in 0..3 : parseFloat(C5_LineWords[i].value) = n * Scale

\* the line being dispatched has an X, Y or Z word with a value
C14_HasAxisWord ==
    \E i \in 1..Len(C5_LineWords) :
        /\ C5_LineWords[i].letter \in {"X", "Y", "Z"}
        /\ C5_LineWords[i].value # <<>>

C14_Step ==
    (pc = "scan" /\ tokens = <<>> /\ ~C14_HasMotionWord) =>
        IF C14_HasAxisWord
        THEN /\ Len(movesLog') = Len(movesLog) + 1
             /\ Len(path') = Len(path) + 1
             /\ LastMove(movesLog').type = "G1"
             /\ LastMove(movesLog').feed_mm_per_min =
                    modal.currentFeed_mm_per_min
        ELSE /\ movesLog' = movesLog
             /\ path' = path
             /\ machinePos' = machinePos

\* C14: a line with an X, Y or Z word and no G0/G1/G2/G3 word, whatever
\* other G words it has and whatever the line before it did, is dispatched
\* as exactly one G1 move at the current feed; a line with no motion word
\* and no X, Y or Z word records no move
C14_ImplicitLinear == [][C14_Step]_vars

\* the arc being dispatched is given by I/J
C15_IJDispatch ==
    ArcDispatch /\ ("I" \in DOMAIN params \/ "J" \in DOMAIN params)

\* the angle of the target less the angle of the start, about the center
C15_RawDelta ==
    Sub(Atan2(Sub(C10_Target.y, C10_Center.y),
              Sub(C10_Target.x, C10_Center.x)),
        Atan2(Sub(machinePos.y, C10_Center.y),
              Sub(machinePos.x, C10_Center.x)))

C15_Step ==
    C15_IJDispatch =>
        /\ IF motionG = 2 THEN Lt(C11_Sweep, 0) ELSE Gt(C11_Sweep, 0)
        /\ Le(AbsN(C11_Sweep), TwoPI)
        /\ C15_RawDelta = 0 => AbsN(C11_Sweep) = TwoPI
        /\ LastMove(movesLog').distance_mm =
               ArcLength(C10_Radius, AbsN(C11_Sweep))

\* G2 X0 Y0 I-5 from (5, 0): a full turn of radius 5, 31.41 mm
C15_Example ==
    (pc = "line" /\ lines = << <<"G", "1", "X", "5">>,
                               <<"G", "2", "X", "0", "Y", "0", "I", "-",
                                 "5">> >>)
    => /\ Len(movesLog) = 2
       /\ movesLog[2].type = "G2"
       /\ movesLog[2].distance_mm = (5 * TwoPI) \div Scale

\* C15: the sweep of every I/J arc is strictly negative for G2 and strictly
\* positive for G3, of magnitude in (0, 2 pi], a full turn when the start
\* and the target have the same angle about the center, and the recorded
\* distance is the radius times that magnitude; G2 X0 Y0 I-5 from (5, 0)
\* records 5 * 2 pi
C15_ForcedSweep == [][C15_Step]_vars /\ []C15_Example

\* 1e-9 mm in the unit of the model, which is 0 at its resolution
C16_Tolerance == Scale \div 1000000000

\* the point p is within the tolerance of the point q in x, y and z
C16_Near(p, q) ==
    /\ Le(AbsN(Sub(p.x, q.x)), C16_Tolerance)
    /\ Le(AbsN(Sub(p.y, q.y)), C16_Tolerance)
    /\ Le(AbsN(Sub(p.z, q.z)), C16_Tolerance)

C16_Step ==
    C11_ArcWithCenter =>
        /\ machinePos' = C10_Target
        /\ C16_Near(path'[Len(path')], C10_Target)

\* C16: after every G2/G3 line that is not degenerate the machine position
\* is the computed target in x, y and z, and the last point of the path is
\* within 1e-9 mm of that target in the three axes, also when only z differs
\* (whatever the start z and the target z) and when the target is off the
\* circle through the start
C16_EndsAtTarget == [][C16_Step]_vars

\* the chord of the arc being dispatched, from the start to the target in XY
C17_Chord ==
    Hypot(Sub(C10_Target.x, machinePos.x), Sub(C10_Target.y, machinePos.y))

\* the arc being dispatched is given by R alone and R is too small for the
\* chord: R * R < (d / 2) * (d / 2), d > 0
C17_RTooSmall ==
    /\ ArcDispatch
    /\ "I" \notin DOMAIN params /\ "J" \notin DOMAIN params
    /\ "R" \in DOMAIN params
    /\ Gt(C17_Chord, 0)
    /\ Lt(Mul(C10_Conv["R"], C10_Conv["R"]),
          Mul(Div(C17_Chord, 2 * Scale), Div(C17_Chord, 2 * Scale)))

C17_Step ==
    C17_RTooSmall =>
        /\ Len(movesLog') = Len(movesLog) + 1
        /\ LastMove(movesLog').type = (IF motionG = 2 THEN "G2" ELSE "G3")
        /\ LastMove(movesLog').distance_mm =
               ArcLength(Div(C17_Chord, 2 * Scale), PI)
        /\ machinePos' = C10_Target
        /\ pc' = "line"

\* G2 X10 R2 followed by G1 X5 from the origin: a half turn of radius 5
\* about (5, 0), 15.70 mm, then the next line, 5 mm back
C17_Example ==
    (pc = "line" /\ lines = << <<"G", "2", "X", "1", "0", "R", "2">>,
                               <<"G", "1", "X", "5">> >>)
    => /\ Len(movesLog) = 2
       /\ movesLog[1].type = "G2"
       /\ movesLog[1].distance_mm = (5 * PI) \div Scale
       /\ movesLog[2].distance_mm = 5 * Scale
       /\ machinePos = [x |-> 5 * Scale, y |-> 0, z |-> 0]

\* C17: an R arc whose R is too small for its chord d > 0 is not rejected:
\* it records one arc of radius d / 2 and a half turn, pi * d / 2, about the
\* middle of the chord, moves the machine to the target, and the lines after
\* it are processed
C17_SmallRadius == [][C17_Step]_vars /\ []C17_Example

\* G2 X10 R2 has been recorded from the origin as a half turn of radius 5
C17_HalfTurnDone ==
    /\ pc = "line" /\ lines # <<>>
    /\ lines[Len(lines)] = <<"G", "2", "X", "1", "0", "R", "2">>
    /\ Len(movesLog) = 1
    /\ movesLog[1].distance_mm = (5 * PI) \div Scale
    /\ machinePos = [x |-> 10 * Scale, y |-> 0, z |-> 0]

\* the offset that the word of letter L gives the center: its value in
\* millimetres, 0 when the line has no such number
C18_Offset(L) ==
    IF L \in DOMAIN params /\ ~IsNaN(params[L])
    THEN Mul(params[L], modal.unitsFactor)
    ELSE 0

\* the arc being dispatched, about the center start + (I, J)
C18_AboutIJ ==
    ArcAbout(machinePos, path, movesLog, modal, motionG, C10_Target,
             Found([x |-> Add(machinePos.x, C18_Offset("I")),
                    y |-> Add(machinePos.y, C18_Offset("J"))]))

\* the same line without its R word
C18_WithoutR ==
    handleArc(machinePos, path, movesLog, modal, motionG,
              [k \in (DOMAIN params) \ {"R"} |-> params[k]])

C18_Step ==
    C15_IJDispatch =>
        /\ machinePos' = C18_AboutIJ.machinePos
        /\ path' = C18_AboutIJ.path
        /\ movesLog' = C18_AboutIJ.movesLog
        /\ machinePos' = C18_WithoutR.machinePos
        /\ path' = C18_WithoutR.path
        /\ movesLog' = C18_WithoutR.movesLog

\* C18: a G2/G3 line with an I or a J word has its center at
\* start + (I, J) in millimetres, a missing I or J being 0, and an R word on
\* the line changes nothing: position, path and move record are those of the
\* line without the R word
C18_IJOverR == [][C18_Step]_vars

\* G3 X10 I5 R9 has been recorded from the origin as the half turn of
\* radius 5 about (5, 0) that I5 gives, not as an arc of radius 9
C18_IJWithRDone ==
    /\ pc = "line" /\ lines # <<>>
    /\ lines[Len(lines)] = <<"G", "3", "X", "1", "0", "I", "5", "R", "9">>
    /\ Len(movesLog) = 1
    /\ movesLog[1].type = "G3"
    /\ movesLog[1].distance_mm = (5 * PI) \div Scale

\* the lines made of one plane word
C19_PlaneLines ==
    { <<"G", "1", "7">>, <<"G", "1", "8">>, <<"G", "1", "9">> }

\* the text ls without its plane lines
C19_WithoutPlanes(ls) == SelectSeq(ls, LAMBDA l : l \notin C19_PlaneLines)

\* the results of a pass, the plane aside
C19_Results(st) ==
    [machinePos |-> st.machinePos, path |-> st.path, movesLog |-> st.movesLog,
     absolute |-> st.modal.absolute, unitsFactor |-> st.modal.unitsFactor,
     currentFeed |-> st.modal.currentFeed_mm_per_min,
     rapidFeed |-> st.modal.rapidFeed_mm_per_min]

\* at the end of a pass the results are those of the text without its
\* plane lines
C19_SameWithoutPlanes ==
    pc = "idle" =>
        C19_Results([machinePos |-> machinePos, path |-> path,
                     movesLog |-> movesLog, modal |-> modal])
            = C19_Results(FirstPass(C19_WithoutPlanes(lines)))

\* the step scans a G17, G18 or G19 word
C19_ScansPlane ==
    /\ pc = "scan" /\ tokens # <<>> /\ Head(tokens).letter = "G"
    /\ parseFloat(Head(tokens).value) \in {17 * Scale, 18 * Scale, 19 * Scale}

\* the arc being dispatched, without its K word
C19_WithoutK ==
    handleArc(machinePos, path, movesLog, modal, motionG,
              [k \in (DOMAIN params) \ {"K"} |-> params[k]])

C19_Step ==
    /\ C19_ScansPlane =>
         /\ modal' = [modal EXCEPT !.plane = modal'.plane]
         /\ modal'.plane =
                (IF parseFloat(Head(tokens).value) = 17 * Scale THEN "XY"
                 ELSE IF parseFloat(Head(tokens).value) = 18 * Scale THEN "XZ"
                 ELSE "YZ")
         /\ UNCHANGED <<machinePos, path, movesLog, motionG, params>>
    /\ ArcDispatch =>
         /\ machinePos' = C19_WithoutK.machinePos
         /\ path' = C19_WithoutK.path
         /\ movesLog' = C19_WithoutK.movesLog

\* C19: G17, G18 and G19 change the plane field of the modal state and
\* nothing else, a program and the same program without its plane lines end
\* with the same path, move log, position, units, mode and feeds, and an arc
\* is resolved without its K word
C19_PlaneHasNoEffect == [][C19_Step]_vars /\ []C19_SameWithoutPlanes

\* a pass has ended in which G18 was followed by the arc G2 X6 I3 J-4 K9,
\* recorded in XY as the minor arc of radius 5
C19_ArcAfterG18 ==
    /\ pc = "idle"
    /\ lines = << <<"G", "1", "8">>,
                  <<"G", "2", "X", "6", "I", "3", "J", "-", "4", "K", "9">> >>
    /\ modal.plane = "XZ"
    /\ Len(movesLog) = 1
    /\ movesLog[1].distance_mm > 6 * Scale
    /\ movesLog[1].distance_mm < 7 * Scale
    /\ machinePos = [x |-> 6 * Scale, y |-> 0, z |-> 0]

\* the value has a digit: of the values the tokenizer yields
\* ([+-]?[0-9]*\.?[0-9]*) these are the well-formed signed decimals
C20_HasDigit(V) == \E j \in 1..Len(V) : V[j] \in Digits

\* every token has an uppercase letter and a value that is empty or a
\* well-formed signed decimal, so that a word without a digit has the empty
\* value
C20_TokensWellFormed ==
    \A i \in 1..Len(tokens) :
        /\ tokens[i].letter \in Letters
        /\ tokens[i].value = <<>> \/ C20_HasDigit(tokens[i].value)

\* the step scans a word that has no digit
C20_ScansDigitless ==
    /\ pc = "scan" /\ tokens # <<>>
    /\ ~C20_HasDigit(Head(tokens).value)

\* the line being dispatched has no X, Y or Z word with a digit
C20_NoAxisNumber ==
    /\ pc = "scan" /\ tokens = <<>>
    /\ \A i \in 1..Len(C5_LineWords) :
         C5_LineWords[i].letter \in {"X", "Y", "Z"}
             => ~C20_HasDigit(C5_LineWords[i].value)

C20_Step ==
    /\ C20_ScansDigitless =>
         /\ modal'.currentFeed_mm_per_min = modal.currentFeed_mm_per_min
         /\ machinePos' = machinePos
    /\ C20_NoAxisNumber => machinePos' = machinePos

\* C20: every token has an uppercase letter and a value that is empty or a
\* well-formed signed decimal; a word with no digit after its letter (X, X-,
\* X.) has the empty value and changes neither currentFeed when it is
\* scanned nor the machine position when its line is dispatched
C20_DigitlessWordsInert == []C20_TokensWellFormed /\ [][C20_Step]_vars

\* the number of the last G word of tks whose number is in S, NoMotion when
\* there is none
RECURSIVE C21_LastG(_, _)
C21_LastG(tks, S) ==
    IF tks = <<>> THEN NoMotion
    ELSE IF tks[Len(tks)].letter = "G" /\ GNumber(tks[Len(tks)].value) \in S
    THEN GNumber(tks[Len(tks)].value)
    ELSE C21_LastG(SubSeq(tks, 1, Len(tks) - 1), S)

\* the units and the mode after the whole line: those of its last G20/G21
\* and G90/G91 word, wherever on the line, else those before the line
C21_Units ==
    IF C21_LastG(C5_LineWords, {20, 21}) = 20 THEN Inch
    ELSE IF C21_LastG(C5_LineWords, {20, 21}) = 21 THEN Millimetre
    ELSE modal.unitsFactor
C21_Absolute ==
    IF C21_LastG(C5_LineWords, {90, 91}) = 90 THEN TRUE
    ELSE IF C21_LastG(C5_LineWords, {90, 91}) = 91 THEN FALSE
    ELSE modal.absolute

\* the X, Y, Z, I, J and R words of the line, in millimetres by the units
\* after the whole line
C21_Letters ==
    {L \in {"X", "Y", "Z", "I", "J", "R"} : C5_LastWord(C5_LineWords, L).found}
C21_Conv ==
    [L \in C21_Letters |-> Mul(C5_LastWord(C5_LineWords, L).value, C21_Units)]

\* where the axis of letter L must end, from its current value cur
C21_Axis(L, cur) ==
    IF L \notin C21_Letters THEN cur
    ELSE IF C21_Absolute THEN C21_Conv[L]
    ELSE Add(cur, C21_Conv[L])

\* the arc of the line, by the units and the mode after the whole line
C21_Arc ==
    ArcMove(machinePos, path, movesLog,
            [modal EXCEPT !.unitsFactor = C21_Units,
                          !.absolute = C21_Absolute],
            motionG, C21_Conv)

C21_Step ==
    /\ LinearDispatch =>
         /\ machinePos'.x = C21_Axis("X", machinePos.x)
         /\ machinePos'.y = C21_Axis("Y", machinePos.y)
         /\ machinePos'.z = C21_Axis("Z", machinePos.z)
    /\ ArcDispatch =>
         /\ machinePos'.x = C21_Axis("X", machinePos.x)
         /\ machinePos'.y = C21_Axis("Y", machinePos.y)
         /\ machinePos'.z = C21_Axis("Z", machinePos.z)
         /\ machinePos' = C21_Arc.machinePos
         /\ path' = C21_Arc.path
         /\ movesLog' = C21_Arc.movesLog

\* G1 X1 G20 moves to x = 25.4 mm, the second G1 X5 G91 is incremental from
\* the first, and the F word of F10 G20 is not rescaled by the G20 after it
C21_Example ==
    /\ (pc = "line" /\ lines = << <<"G", "1", "X", "1", "G", "2", "0">> >>)
         => machinePos.x = 2540
    /\ (pc = "line" /\ lines = << <<"G", "1", "X", "5", "G", "9", "1">>,
                                  <<"G", "1", "X", "5", "G", "9", "1">> >>)
         => machinePos.x = 10 * Scale
    /\ (pc = "line" /\ lines = << <<"F", "1", "0", "G", "2", "0">> >>)
         => modal.currentFeed_mm_per_min = 10 * Scale

\* C21: the X, Y, Z, I, J and R words of a line are converted and applied
\* with the units and the absolute/incremental mode in effect after the whole
\* line has been scanned: a G20/G21 or G90/G91 after an axis word of the same
\* line governs that word, for linear moves and for arcs, while an F word
\* keeps the units in effect where it stands
C21_LineModalGoverns == [][C21_Step]_vars /\ []C21_Example

\* G1 X1 G20 has moved to x = 25.4 mm
C21_LateInchDone ==
    /\ pc = "line"
    /\ lines = << <<"G", "1", "X", "1", "G", "2", "0">> >>
    /\ modal.unitsFactor = Inch
    /\ machinePos.x = 2540
    /\ Len(movesLog) = 1

\* the number of the last motion word (G0, G1, G2, G3) of tks, NoMotion when
\* there is none
RECURSIVE C22_LastMotion(_)
C22_LastMotion(tks) ==
    IF tks = <<>> THEN NoMotion
    ELSE IF /\ tks[Len(tks)].letter = "G"
            /\ \E n \in 0..3 : parseFloat(tks[Len(tks)].value) = n * Scale
    THEN parseFloat(tks[Len(tks)].value) \div Scale
    ELSE C22_LastMotion(SubSeq(tks, 1, Len(tks) - 1))

\* the type of a move record of motion word n
C22_Type(n) ==
    IF n = 0 THEN "G0" ELSE IF n = 1 THEN "G1" ELSE IF n = 2 THEN "G2" ELSE "G3"

C22_Step ==
    /\ Len(movesLog') <= Len(movesLog) + 1
    /\ Len(movesLog') > Len(movesLog) => (pc = "scan" /\ tokens = <<>>)
    /\ (pc = "scan" /\ tokens = <<>> /\ Len(movesLog') = Len(movesLog) + 1) =>
         /\ SubSeq(movesLog', 1, Len(movesLog)) = movesLog
         /\ C22_LastMotion(C5_LineWords) # NoMotion =>
                LastMove(movesLog').type = C22_Type(C22_LastMotion(C5_LineWords))
         /\ machinePos'.x = C5_Expected("X", machinePos.x)
         /\ machinePos'.y = C5_Expected("Y", machinePos.y)
         /\ machinePos'.z = C5_Expected("Z", machinePos.z)
    /\ (pc = "scan" /\ tokens = <<>> /\ C22_LastMotion(C5_LineWords) \in {0, 1}) =>
         /\ Len(movesLog') = Len(movesLog) + 1
         /\ path' = Append(path, machinePos')

\* C22: a line appends at most one move record; its type is that of the
\* last motion word (G0, G1, G2, G3) of the line and its target is made of
\* the last value of each axis letter; a line whose move is G0 or G1 appends
\* exactly one record and one path point, with or without an axis word
C22_OneMovePerLine == [][C22_Step]_vars

\* the arc being dispatched is given by R alone and its chord is not null
C23_RForm ==
    /\ ArcDispatch
    /\ "I" \notin DOMAIN params /\ "J" \notin DOMAIN params
    /\ "R" \in DOMAIN params
    /\ Gt(C17_Chord, 0)

\* the sweep from the start to the target about the chosen center,
\* normalized to (-pi, pi]
C23_Normalized ==
    normalizeAngle(Sub(Atan2(Sub(C10_Target.y, C10_Center.y),
                             Sub(C10_Target.x, C10_Center.x)),
                       Atan2(Sub(machinePos.y, C10_Center.y),
                             Sub(machinePos.x, C10_Center.x))))

\* the normalized sweep has the sign of the direction
C23_HasSign ==
    IF motionG = 2 THEN Lt(C23_Normalized, 0) ELSE Gt(C23_Normalized, 0)

\* |R| is at most half the chord: the two candidates are one point
C23_Coincide ==
    Le(Mul(C10_Conv["R"], C10_Conv["R"]),
       Mul(Div(C17_Chord, 2 * Scale), Div(C17_Chord, 2 * Scale)))

\* the middle of the chord
C23_Midpoint ==
    [ x |-> Div(Add(machinePos.x, C10_Target.x), 2 * Scale),
      y |-> Div(Add(machinePos.y, C10_Target.y), 2 * Scale) ]

\* the same line with R negated: its center and its result
C23_NegatedCenter ==
    ArcCenter(machinePos, C10_Target,
              [C10_Conv EXCEPT !["R"] = Sub(0, C10_Conv["R"])], motionG = 2)
C23_Negated ==
    handleArc(machinePos, path, movesLog, modal, motionG,
              [params EXCEPT !["R"] = Sub(0, params["R"])])

\* the recorded sweep is at most a half turn, and R and -R give the same
\* center, move record (distance, time) and path
C23_MinorAndUnsigned ==
    /\ Le(AbsN(C11_Sweep), PI)
    /\ C23_NegatedCenter = C10_Center
    /\ machinePos' = C23_Negated.machinePos
    /\ movesLog' = C23_Negated.movesLog
    /\ path' = C23_Negated.path
    /\ Len(movesLog') = Len(movesLog) + 1

C23_AnyRadiusStep == C23_RForm => (C23_HasSign /\ C23_MinorAndUnsigned)

C23_Step ==
    C23_RForm =>
        /\ IF C23_Coincide
           THEN /\ C10_Center.x = C23_Midpoint.x
                /\ C10_Center.y = C23_Midpoint.y
                /\ C23_Normalized = PI
                /\ AbsN(C11_Sweep) = PI
           ELSE C23_HasSign
        /\ C23_MinorAndUnsigned

=============================================================================
